---- MODULE Spec2Model ----
(***************************************************************************)
(* Model of src/stock_block.py: a Streamlit script that fetches sector     *)
(* fund-flow rows, normalises them (process_data, cached for 300 s per     *)
(* indicator), renders a treemap and a summary (main_display) and then     *)
(* sleeps and reruns (auto_refresh_system).                                *)
(*                                                                         *)
(* Numbers.  A raw net inflow is an integer amount of currency.  The       *)
(* converted net inflow (yi, 10^8 units, 2 decimals) is held in hundredths *)
(* of a yi, so 2.5 is 250.  Percentages are held in hundredths too.        *)
(* Time is held in seconds; every pass costs a positive but negligible     *)
(* time, so an entry stored at t is valid at t + d exactly when d < ttl.   *)
(***************************************************************************)
EXTENDS Integers, Sequences, FiniteSets, TLC

VARIABLES
    pc,                 \* position of the script run
    indicator,          \* value of the "分析周期" radio widget
    refresh_interval,   \* value of the refresh slider, seconds
    cache,              \* st.cache_data store of process_data, per indicator
    raw,                \* what the provider answered in this pass, if called
    df,                 \* the DataFrame process_data returned in this pass
    st_error,           \* st.error was called by process_data in this pass
    shown               \* what main_display put on the page in this pass

vars == <<pc, indicator, refresh_interval, cache, raw, df, st_error, shown>>

-----------------------------------------------------------------------------
(* Bounds of the model *)

MaxRows == 3            \* rows of a provider table in SpecPipeline
MaxIntervalSteps == 5   \* slider positions the model lets the user pick

(* Program constants *)

ttl == 300              \* @st.cache_data(ttl=300)
min_value == 60         \* slider min_value
max_value == 3600       \* slider max_value
step == 60              \* slider step
YiDivisor == 100000000  \* df['主力净流入-净额'] / 100000000
Decimals == 2           \* .round(2)

Indicators == {"今日", "5日", "10日"}

RefreshIntervals ==
    {v \in {min_value + step * k : k \in 0..(MaxIntervalSteps - 1)} : v <= max_value}

-----------------------------------------------------------------------------
(* Cell values of a DataFrame column: a number, NaN, or a string *)

Num(n) == [kind |-> "num", v |-> n, s |-> ""]
Str(t) == [kind |-> "str", v |-> 0, s |-> t]
NaN == [kind |-> "nan", v |-> 0, s |-> ""]

Abs(x) == IF x < 0 THEN -x ELSE x
Max2(a, b) == IF a >= b THEN a ELSE b
Min2(a, b) == IF a <= b THEN a ELSE b

SectorNames == <<"A", "B", "C", "D", "E", "F">>

(* What the provider can put in the net-inflow and price-change columns *)
RawNets ==
    { Num(-300000000), Num(-12500000), Num(0), Num(400000), Num(12500000),
      Num(250000000), NaN, Str("bad") }

RawPcts == { Num(320), Str("-1.5"), Str("bad") }

RawRows == [net : RawNets, pct : RawPcts]

Raise == [kind |-> "raise", rows |-> <<>>]
NoCall == [kind |-> "none", rows |-> <<>>]
Table(rows) == [kind |-> "table", rows |-> rows]

TablesOver(rowset, n) ==
    UNION { [1..k -> rowset] : k \in 0..n }

(* Every answer of ak.stock_sector_fund_flow_rank: an exception or a table *)
AllResponses == {Raise} \cup { Table(t) : t \in TablesOver(RawRows, MaxRows) }

(* The answers the refresh-loop specification draws from *)
LoopResponses ==
    { Raise,
      Table(<<[net |-> NaN, pct |-> Num(320)]>>),
      Table(<<[net |-> Num(250000000), pct |-> Str("bad")]>>) }

-----------------------------------------------------------------------------
(* process_data *)

(* round(2) of n / YiDivisor, in hundredths: the quotient n / 10^6 rounded *)
(* to an integer, a tie going to the even neighbour (numpy's rint)         *)
RoundUnit == YiDivisor \div (10 ^ Decimals)

RoundHalfEven(n, d) ==
    LET q == n \div d
        r == n % d
    IN  IF 2 * r < d THEN q
        ELSE IF 2 * r > d THEN q + 1
        ELSE IF q % 2 = 0 THEN q ELSE q + 1

(* df['主力净流入-净额'] / 100000000 followed by .round(2), on one cell *)
ToYi(cell) ==
    IF cell.kind = "num" THEN Num(RoundHalfEven(cell.v, RoundUnit)) ELSE NaN

(* The decimal strings pd.to_numeric parses, with their values in hundredths *)
ParseTable == [t \in {"3.2", "-1.5"} |-> IF t = "3.2" THEN 320 ELSE -150]

(* pd.to_numeric(cell, errors='coerce') *)
to_numeric(cell) ==
    IF cell.kind = "num" THEN cell
    ELSE IF cell.kind = "str" /\ cell.s \in DOMAIN ParseTable
         THEN Num(ParseTable[cell.s])
    ELSE NaN

(* abs(df['资金净流入(亿)']) on one cell *)
AbsCell(cell) == IF cell.kind = "num" THEN Num(Abs(cell.v)) ELSE NaN

(* A column holding a string is an object column: dividing it by an int    *)
(* raises TypeError                                                        *)
DivisionRaises(rows) ==
    \E i \in 1..Len(rows) : rows[i].net.kind = "str"

(* Lines 27-38: the frame with its new columns, before dropna *)
Converted(rows) ==
    [i \in 1..Len(rows) |->
        [ index    |-> i - 1,
          name     |-> SectorNames[i],
          net_raw  |-> rows[i].net,
          net_yi   |-> ToYi(rows[i].net),
          pct      |-> to_numeric(rows[i].pct),
          strength |-> AbsCell(ToYi(rows[i].net)) ]]

(* df.dropna(subset=['资金净流入(亿)']): the rows whose converted net     *)
(* inflow is not NaN, in their order                                       *)
RECURSIVE dropna(_)
dropna(frame) ==
    IF frame = <<>> THEN <<>>
    ELSE IF Head(frame).net_yi.kind = "num"
         THEN <<Head(frame)>> \o dropna(Tail(frame))
         ELSE dropna(Tail(frame))

(* Variant: the handler reports the error and re-raises it *)
ExceptHandlerReraises == [df |-> <<>>, error |-> TRUE, raised |-> TRUE]

(* except Exception: st.error(...); return pd.DataFrame() *)
ExceptHandler == [df |-> <<>>, error |-> TRUE, raised |-> FALSE]

(* The body of process_data on one answer of the provider *)
process_data(response) ==
    IF response.kind = "raise" THEN ExceptHandler
    ELSE IF DivisionRaises(response.rows) THEN ExceptHandler
    ELSE [df |-> dropna(Converted(response.rows)), error |-> FALSE, raised |-> FALSE]

-----------------------------------------------------------------------------
(* generate_heatmap and the summary panel *)

NetYi(d) == [i \in 1..Len(d) |-> d[i].net_yi.v]

(* Series.min() and Series.max(): NaN on an empty column *)
RECURSIVE SeqMin(_)
SeqMin(xs) ==
    IF Len(xs) = 1 THEN Head(xs) ELSE Min2(Head(xs), SeqMin(Tail(xs)))

RECURSIVE SeqMax(_)
SeqMax(xs) ==
    IF Len(xs) = 1 THEN Head(xs) ELSE Max2(Head(xs), SeqMax(Tail(xs)))

ColMin(d) == IF d = <<>> THEN NaN ELSE Num(SeqMin(NetYi(d)))
ColMax(d) == IF d = <<>> THEN NaN ELSE Num(SeqMax(NetYi(d)))

NegCell(cell) == IF cell.kind = "num" THEN Num(-cell.v) ELSE NaN

(* Variant: the bound taken from the maximum alone *)
ColorBoundMaxOnly(d) ==
    IF d = <<>> THEN NaN ELSE Num(Abs(ColMax(d).v))

(* max(abs(min), abs(max)) *)
ColorBound(d) ==
    IF d = <<>> THEN NaN ELSE Num(Max2(Abs(ColMin(d).v), Abs(ColMax(d).v)))

(* The arguments generate_heatmap hands to px.treemap *)
generate_heatmap(d) ==
    [ range_color |-> <<NegCell(ColorBound(d)), ColorBound(d)>>,
      midpoint    |-> 0 ]

(* Variant: the index label of the last occurrence of the maximum *)
idxmax_last(d) ==
    LET m == ColMax(d).v
        p == CHOOSE i \in 1..Len(d) :
                /\ d[i].net_yi.v = m
                /\ \A j \in (i + 1)..Len(d) : d[j].net_yi.v # m
    IN  d[p].index

(* Series.idxmax() and idxmin(): the index label of the first occurrence *)
idxmax(d) ==
    LET m == ColMax(d).v
        p == CHOOSE i \in 1..Len(d) :
                /\ d[i].net_yi.v = m
                /\ \A j \in 1..(i - 1) : d[j].net_yi.v # m
    IN  d[p].index

idxmin(d) ==
    LET m == ColMin(d).v
        p == CHOOSE i \in 1..Len(d) :
                /\ d[i].net_yi.v = m
                /\ \A j \in 1..(i - 1) : d[j].net_yi.v # m
    IN  d[p].index

(* df.loc[label, '板块名称'] *)
loc_name(d, label) ==
    d[CHOOSE i \in 1..Len(d) : d[i].index = label].name

RECURSIVE SeqSum(_)
SeqSum(xs) == IF xs = <<>> THEN 0 ELSE Head(xs) + SeqSum(Tail(xs))

NoSummary ==
    [ max_value |-> 0, max_sector |-> "", min_value |-> 0, min_sector |-> "",
      bullish |-> 0, bearish |-> 0, total |-> 0 ]

(* The three metrics of the "实时快报" expander *)
Summary(d) ==
    [ max_value  |-> ColMax(d).v,
      max_sector |-> loc_name(d, idxmax(d)),
      min_value  |-> ColMin(d).v,
      min_sector |-> loc_name(d, idxmin(d)),
      bullish    |-> Cardinality({i \in 1..Len(d) : d[i].net_yi.v > 0}),
      bearish    |-> Cardinality({i \in 1..Len(d) : d[i].net_yi.v < 0}),
      total      |-> SeqSum(NetYi(d)) ]

(* Variant: the emptiness test that never reports an empty frame *)
df_empty_never(d) == FALSE

(* df.empty *)
df_empty(d) == Len(d) = 0

NoView ==
    [ kind |-> "none", heatmap |-> FALSE, summarized |-> FALSE,
      range_color |-> <<NaN, NaN>>, summary |-> NoSummary ]

-----------------------------------------------------------------------------
(* st.cache_data(ttl=300): one entry per argument value *)

NoEntry == [present |-> FALSE, snap |-> <<>>, age |-> 0, failed |-> FALSE]

(* Variant: an entry that never expires *)
CacheValidForever(e) == e.present

(* An entry is served while it is younger than ttl *)
CacheValid(e) == e.present /\ e.age < ttl

(* Variant: the result of the except branch is not stored *)
CacheStoreSkipsFailures(c, ind, res) ==
    IF res.error THEN c
    ELSE [c EXCEPT ![ind] =
            [present |-> TRUE, snap |-> res.df, age |-> 0, failed |-> FALSE]]

(* Whatever process_data returns is stored under its argument.  failed     *)
(* records that the stored value came from the except branch.              *)
CacheStore(c, ind, res) ==
    [c EXCEPT ![ind] =
        [present |-> TRUE, snap |-> res.df, age |-> 0, failed |-> res.error]]

(* d seconds pass; ages past ttl are all alike *)
Elapse(c, d) ==
    [k \in Indicators |->
        IF c[k].present THEN [c[k] EXCEPT !.age = Min2(@ + d, ttl)] ELSE c[k]]

-----------------------------------------------------------------------------
(* The script run, lines 143-148 *)

Init ==
    /\ pc = "process_data"
    /\ indicator = "今日"
    /\ refresh_interval = min_value
    /\ cache = [k \in Indicators |-> NoEntry]
    /\ raw = NoCall
    /\ df = <<>>
    /\ st_error = FALSE
    /\ shown = NoView

(* process_data(indicator) served from the cache *)
ProcessDataHit ==
    /\ pc = "process_data"
    /\ CacheValid(cache[indicator])
    /\ df' = cache[indicator].snap
    /\ raw' = NoCall
    /\ st_error' = FALSE
    /\ pc' = "main_display"
    /\ UNCHANGED <<indicator, refresh_interval, cache, shown>>

(* process_data(indicator) run: the provider is called and answers with    *)
(* one of responses                                                        *)
ProcessDataMiss(responses) ==
    /\ pc = "process_data"
    /\ ~CacheValid(cache[indicator])
    /\ \E response \in responses :
        LET res == process_data(response) IN
        /\ raw' = response
        /\ st_error' = res.error
        /\ df' = res.df
        /\ IF res.raised
           THEN pc' = "aborted" /\ cache' = cache
           ELSE pc' = "main_display" /\ cache' = CacheStore(cache, indicator, res)
    /\ UNCHANGED <<indicator, refresh_interval, shown>>

(* main_display(df).  px.treemap is a library call that may raise; nothing *)
(* in the script catches it, so the run ends there.                        *)
MainDisplay ==
    /\ pc = "main_display"
    /\ IF ~df_empty(df)
       THEN \E raises \in BOOLEAN :
              IF raises \/ df = <<>>
              THEN /\ shown' = [ kind |-> "exception", heatmap |-> TRUE,
                                 summarized |-> FALSE,
                                 range_color |-> generate_heatmap(df).range_color,
                                 summary |-> NoSummary ]
                   /\ pc' = "aborted"
              ELSE /\ shown' = [ kind |-> "chart", heatmap |-> TRUE,
                                 summarized |-> TRUE,
                                 range_color |-> generate_heatmap(df).range_color,
                                 summary |-> Summary(df) ]
                   /\ pc' = "auto_refresh"
       ELSE /\ shown' = [NoView EXCEPT !.kind = "warning"]
            /\ pc' = "auto_refresh"
    /\ UNCHANGED <<indicator, refresh_interval, cache, raw, df, st_error>>

(* auto_refresh_system: time.sleep(refresh_interval); st.rerun() *)
AutoRefresh ==
    /\ pc = "auto_refresh"
    /\ cache' = Elapse(cache, refresh_interval)
    /\ pc' = "process_data"
    /\ raw' = NoCall
    /\ df' = <<>>
    /\ st_error' = FALSE
    /\ shown' = NoView
    /\ UNCHANGED <<indicator, refresh_interval>>

(* The user moves a sidebar widget: Streamlit stops the sleeping (or ended) *)
(* run and reruns the script with the new widget values.                    *)
WidgetChange ==
    /\ pc \in {"auto_refresh", "aborted"}
    /\ \E ind \in Indicators, ri \in RefreshIntervals, k \in 0..(ttl \div step) :
        /\ <<ind, ri>> # <<indicator, refresh_interval>>
        /\ pc = "auto_refresh" => step * k < refresh_interval
        /\ indicator' = ind
        /\ refresh_interval' = ri
        /\ cache' = Elapse(cache, step * k)
    /\ pc' = "process_data"
    /\ raw' = NoCall
    /\ df' = <<>>
    /\ st_error' = FALSE
    /\ shown' = NoView

Next ==
    \/ ProcessDataHit
    \/ ProcessDataMiss(LoopResponses)
    \/ MainDisplay
    \/ AutoRefresh
    \/ WidgetChange

(* The refresh loop, with the cache, over a small set of provider answers *)
Spec == Init /\ [][Next]_vars

NextPipeline ==
    \/ ProcessDataMiss(AllResponses)
    \/ MainDisplay

(* One pass over every provider answer within the bounds *)
SpecPipeline == Init /\ [][NextPipeline]_vars

-----------------------------------------------------------------------------
(* Properties *)

(* Round half-up (ties away from zero, decimal.ROUND_HALF_UP) of n / d *)
RoundHalfUp(n, d) ==
    IF n >= 0 THEN (2 * n + d) \div (2 * d) ELSE -((2 * (-n) + d) \div (2 * d))

Passed == pc \in {"main_display", "auto_refresh", "aborted"}

(* C1: of a provider table, process_data drops exactly the rows whose net  *)
(* inflow is missing or unparsable and returns the others in their order;  *)
(* a row with an unparsable price change is kept with pct undefined.       *)
C1_OnlyBadRowsExcluded ==
    (Passed /\ raw.kind = "table") =>
        LET good == {i \in 1..Len(raw.rows) : raw.rows[i].net.kind = "num"} IN
        /\ Len(df) = Cardinality(good)
        /\ \A i \in good : \E j \in 1..Len(df) :
              /\ df[j].name = SectorNames[i]
              /\ (raw.rows[i].pct = Str("bad") => df[j].pct = NaN)
        /\ \A j, k \in 1..Len(df) : j < k => df[j].index < df[k].index

(* C2: when the provider call raises, process_data reports the error and   *)
(* returns an empty frame, the run does not end with an exception, and the *)
(* pass shows the warning and neither chart nor summary.                   *)
C2_ProviderFailureHandled ==
    raw.kind = "raise" =>
        /\ pc \in {"main_display", "auto_refresh"}
        /\ df = <<>>
        /\ st_error
        /\ pc = "main_display" => shown = NoView
        /\ pc = "auto_refresh" =>
              shown.kind = "warning" /\ ~shown.heatmap /\ ~shown.summarized

C2_Witness ==
    raw.kind = "raise" /\ pc = "auto_refresh" /\ shown.kind = "warning"

(* C3: whatever main_display did in a pass, the run is then at the refresh *)
(* step (sleep, then rerun): no pass ends the run anywhere else.           *)
C3_RefreshAlwaysReached ==
    shown.kind # "none" => pc = "auto_refresh"

(* C4: generate_heatmap and the summary are invoked only on a non-empty    *)
(* frame; on an empty frame neither is invoked and the warning is shown.   *)
C4_RenderOnlyNonEmpty ==
    /\ (shown.heatmap \/ shown.summarized) => df # <<>>
    /\ (shown.kind # "none" /\ df = <<>>) =>
          shown.kind = "warning" /\ ~shown.heatmap /\ ~shown.summarized

C4_Witness ==
    /\ raw.kind = "table" /\ Len(raw.rows) > 0
    /\ df = <<>>
    /\ shown.kind = "warning"

(* C5: for a non-empty frame whose net inflows are all zero, the colour    *)
(* range bound R handed to the chart is strictly positive.                 *)
C5_AllZeroRangePositive ==
    (shown.heatmap /\ df # <<>> /\ \A i \in 1..Len(df) : df[i].net_yi.v = 0) =>
        shown.range_color[2].kind = "num" /\ shown.range_color[2].v > 0

(* C6: the converted net inflow of every retained row is the raw amount    *)
(* divided by 10^8 and rounded half-up to 2 decimals.                      *)
C6_RoundHalfUp ==
    Passed =>
        \A i \in 1..Len(df) :
            df[i].net_yi.v = RoundHalfUp(df[i].net_raw.v, RoundUnit)

(* C7: a call of process_data for an indicator stored less than 300 s ago  *)
(* returns the stored frame without calling the provider and leaves the    *)
(* cache alone; otherwise (entry expired or indicator not stored) the      *)
(* provider is called and the result stored under that indicator only.     *)
C7_CacheWindow ==
    [][ pc = "process_data" =>
          IF cache[indicator].present /\ cache[indicator].age < 300
          THEN raw' = NoCall /\ df' = cache[indicator].snap /\ cache' = cache
          ELSE /\ raw'.kind # "none"
               /\ cache'[indicator].present
               /\ cache'[indicator].snap = df'
               /\ cache'[indicator].age = 0
               /\ \A k \in Indicators \ {indicator} : cache'[k] = cache[k]
      ]_vars

C7_Witness ==
    /\ pc = "main_display"
    /\ raw = NoCall
    /\ cache[indicator].age > 0
    /\ df # <<>>
    /\ \E k \in Indicators \ {indicator} : cache[k].present /\ cache[k].age = ttl

(* C8: for a non-empty frame the colour domain is [-R, R] with R >= 0,     *)
(* every net inflow of the frame lies in it, and R is the largest          *)
(* magnitude among them.                                                   *)
C8_SymmetricDomain ==
    (shown.heatmap /\ df # <<>>) =>
        LET lo == shown.range_color[1]
            hi == shown.range_color[2]
        IN  /\ lo.kind = "num" /\ hi.kind = "num"
            /\ lo.v = -hi.v
            /\ hi.v >= 0
            /\ \A i \in 1..Len(df) : lo.v <= df[i].net_yi.v /\ df[i].net_yi.v <= hi.v
            /\ \E i \in 1..Len(df) : Abs(df[i].net_yi.v) = hi.v

C8_Witness ==
    /\ shown.kind = "chart"
    /\ \E i, j \in 1..Len(df) :
          /\ df[i].net_yi.v = shown.range_color[1].v
          /\ df[j].net_yi.v > 0
          /\ df[j].net_yi.v < shown.range_color[2].v

(* C9: the summary's max-inflow sector is the first row holding the        *)
(* maximum net inflow and its max-outflow sector the first row holding the *)
(* minimum.                                                                *)
C9_FirstOccurrence ==
    shown.summarized =>
        /\ \E i \in 1..Len(df) :
              /\ df[i].name = shown.summary.max_sector
              /\ df[i].net_yi.v = shown.summary.max_value
              /\ \A j \in 1..Len(df) : df[j].net_yi.v <= df[i].net_yi.v
              /\ \A j \in 1..(i - 1) : df[j].net_yi.v < df[i].net_yi.v
        /\ \E i \in 1..Len(df) :
              /\ df[i].name = shown.summary.min_sector
              /\ df[i].net_yi.v = shown.summary.min_value
              /\ \A j \in 1..Len(df) : df[j].net_yi.v >= df[i].net_yi.v
              /\ \A j \in 1..(i - 1) : df[j].net_yi.v > df[i].net_yi.v

C9_Witness ==
    /\ shown.summarized
    /\ Len(df) < Len(raw.rows)
    /\ \E i, j \in 1..Len(df) :
          /\ i < j
          /\ df[i].net_yi.v = shown.summary.max_value
          /\ df[j].net_yi.v = shown.summary.max_value
          /\ shown.summary.max_sector = df[i].name
          /\ df[i].index # i - 1

(* C10: the empty frame of a failed provider call is stored like any       *)
(* result; while that entry is younger than 300 s every pass for the       *)
(* indicator gets the empty frame without a provider call and shows the    *)
(* warning.                                                                *)
C10_FailureIsCached ==
    [][ /\ (pc = "process_data" /\ raw'.kind = "raise") =>
              /\ cache'[indicator].present
              /\ cache'[indicator].failed
              /\ cache'[indicator].snap = <<>>
              /\ cache'[indicator].age = 0
        /\ (/\ pc = "process_data"
            /\ cache[indicator].present
            /\ cache[indicator].failed
            /\ cache[indicator].age < 300) =>
              raw' = NoCall /\ df' = <<>> /\ pc' = "main_display"
        /\ (pc = "main_display" /\ raw = NoCall /\ cache[indicator].failed) =>
              shown'.kind = "warning" /\ pc' = "auto_refresh"
      ]_vars

C10_Witness ==
    /\ pc = "auto_refresh"
    /\ raw = NoCall
    /\ cache[indicator].failed
    /\ cache[indicator].age >= 2 * min_value
    /\ shown.kind = "warning"

====
